---- MODULE Spec2Model ----
(***************************************************************************)
(* Model of the parse-error diagnostic engine of ansible.errors:           *)
(* AnsibleError._get_error_lines_from_file (the context resolver) and      *)
(* AnsibleError._get_extended_error (the heuristic classifier).            *)
(*                                                                         *)
(* A text line is a sequence of one-character strings, a file is a         *)
(* sequence of lines as f.readlines() returns them (newline kept).         *)
(* error_message is the sequence of the fragments concatenated so far.     *)
(*                                                                         *)
(* Three helpers of ansible.utils have their own specifications:           *)
(* SpecSingleton (utils/singleton.py, Singleton.__call__ under threads),   *)
(* SpecMakedirs (utils/path.py, makedirs_safe under concurrent callers)    *)
(* and SpecRunCmd (utils/cmd_functions.py, run_cmd beside its child).      *)
(* Each specification leaves the state of the others at rest.              *)
(***************************************************************************)
EXTENDS Integers, Sequences, FiniteSets, TLC

\* ------------------------------------------------------------------ bounds
MaxLines == 3   \* longest file, in lines
MaxCode == 2   \* most non-blank lines in one file
MaxCol == 2   \* largest reported column
NegCol == 3   \* reported columns go down to -NegCol
NegLine == 1   \* reported lines go down to -NegLine
NumThreads == 3   \* threads calling a Singleton class
MaxCalls == 2   \* calls each thread makes
NumCallers == 2   \* concurrent callers of makedirs_safe
MaxBytes == 2   \* bytes the child of run_cmd writes to one pipe at most
ReadSize == 1   \* the readsize argument of run_cmd

\* --------------------------------------------------------- python strings
Max(S) == CHOOSE x \in S : \A y \in S : y <= x
Min(S) == CHOOSE x \in S : \A y \in S : x <= y

WordChars == {"a", "b", "c", "_"}
\* re: \w
IsWord(c) == c \in WordChars
\* str.strip() / re: \s
IsSpace(c) == c \in {" ", "\t", "\n"}
\* re: [\w/-]
IsWordPath(c) == IsWord(c) \/ c \in {"/", "-"}
IsQuote(c) == c \in {"\"", "'"}

\* not s.strip()
IsBlank(s) == \A i \in DOMAIN s : IsSpace(s[i])
\* s.rstrip()
RStrip(s) == SubSeq(s, 1, Max({0} \cup {i \in DOMAIN s : ~IsSpace(s[i])}))
\* s.strip()
Strip(s) ==
    IF IsBlank(s) THEN <<>>
    ELSE SubSeq(s, Min({i \in DOMAIN s : ~IsSpace(s[i])}),
                   Max({i \in DOMAIN s : ~IsSpace(s[i])}))
\* s.find(c): 0-based index of the first c, -1 when there is none
Find(s, c) ==
    IF \E i \in DOMAIN s : s[i] = c
    THEN Min({i \in DOMAIN s : s[i] = c}) - 1
    ELSE -1
\* s.count(c)
Count(s, c) == Cardinality({i \in DOMAIN s : s[i] = c})
\* sub in s
Contains(s, sub) ==
    \E i \in 1..(Len(s) - Len(sub) + 1) : SubSeq(s, i, i + Len(sub) - 1) = sub
\* s.replace(" ", "")
StripSpaces(s) == SelectSeq(s, LAMBDA c : c # " ")
\* s.startswith(c), s.endswith(c) for a one-character c
StartsWith(s, c) == Len(s) > 0 /\ s[1] = c
EndsWith(s, c) == Len(s) > 0 /\ s[Len(s)] = c
\* " " * n
Spaces(n) == IF n > 0 THEN n ELSE 0

\* seq[i] of a python list or str: negative indices count from the end,
\* anything outside -len..len-1 raises IndexError
PyInRange(seq, i) == -Len(seq) <= i /\ i < Len(seq)
PyGet(seq, i) == IF i >= 0 THEN seq[i + 1] ELSE seq[Len(seq) + i + 1]

\* s.split(":")[1], defined when s.count(":") >= 1
SecondPart(s) ==
    LET first == Find(s, ":") + 1
        rest  == SubSeq(s, first + 1, Len(s))
        nxt   == Find(rest, ":")
    IN  IF nxt < 0 THEN rest ELSE SubSeq(rest, 1, nxt)

\* ------------------------------------------------------------ the inputs
BlankLine == <<" ", "\n">>
CodeLine == <<"a", "\n">>
ShorthandLine == <<"a", " ", "=", "b", " ", "\n">>
TabQuoteLine == <<"\t", ":", "\"", "\"", "\"", "\n">>
VarQuoteLine == <<"a", ":", " ", "\"", "{", "{", "b", "}", "}", "\n">>
ColonLine == <<"a", ":", "b", ":", "c", "\n">>
DictLine == <<"\"", "{", "{", "'", "{", "{", ":", " ", "{", "{", "}", "}", "\n">>

TabVarColonQuoteLine == <<"\t", ":", "{", "{", "}", "}", ":", "\"", "\"", "\"", "\n">>
QuotedVarLine == <<"a", ":", " ", "\"", "{", "{", "b", "}", "}", "\"", "\n">>
UnquotedMiddleLine == <<"a", ":", "b", "\"", "\"", "\"", "\n">>
SingleQuotesLine == <<"a", ":", "'", "'", "'", "\n">>

CodeLines == {CodeLine, ShorthandLine, TabQuoteLine, VarQuoteLine, ColonLine, DictLine,
              TabVarColonQuoteLine, QuotedVarLine, UnquotedMiddleLine, SingleQuotesLine}
Pool == {BlankLine} \cup CodeLines

RECURSIVE SeqsUpTo(_, _)
SeqsUpTo(S, n) ==
    IF n = 0 THEN {<<>>}
    ELSE LET shorter == SeqsUpTo(S, n - 1)
         IN  shorter \cup {Append(f, l) : f \in {g \in shorter : Len(g) = n - 1}, l \in S}

FileContents ==
    {f \in SeqsUpTo(Pool, MaxLines) :
        Cardinality({i \in DOMAIN f : ~IsBlank(f[i])}) <= MaxCode}

\* what open(file_name, 'r') and f.readlines() meet on disk
FileStates ==
    {[kind |-> k, lines |-> <<>>] : k \in {"missing", "unreadable", "undecodable"}}
        \cup {[kind |-> "ok", lines |-> f] : f \in FileContents}

\* obj.ansible_pos[0]; NotAPath stands for a value open() rejects by type
NotAPath == "None"
SrcFiles == {"<string>", "<unicode>", "play.yml", NotAPath}
LineNumbers == (0 - NegLine)..(MaxLines + 1)
ColNumbers == (0 - NegCol)..MaxCol

\* ------------------------------------------------------- python exceptions
NoExc == "none"
\* the classes an exception is an instance of
Bases(exc) ==
    CASE exc = "FileNotFoundError"  -> {"FileNotFoundError", "OSError", "IOError"}
      [] exc = "PermissionError"    -> {"PermissionError", "OSError", "IOError"}
      [] exc = "TypeError"          -> {"TypeError"}
      [] exc = "IndexError"         -> {"IndexError", "LookupError"}
      [] exc = "UnicodeDecodeError" -> {"UnicodeDecodeError", "UnicodeError", "ValueError"}
      [] OTHER                      -> {}

\* with open(file_name, 'r') as f: lines = f.readlines()
OpenAndRead(file_name, fs) ==
    IF file_name = NotAPath THEN "TypeError"
    ELSE CASE fs.kind = "missing"     -> "FileNotFoundError"
           [] fs.kind = "unreadable"  -> "PermissionError"
           [] fs.kind = "undecodable" -> "UnicodeDecodeError"
           [] OTHER                   -> NoExc


\* ------------------------------------------------- the context resolver
\* the clamp with > written for >=
Clamp_Greater(n, file_length) == IF n > file_length THEN file_length - 1 ELSE n

\* if line_number >= file_length: line_number = file_length - 1
Clamp(n, file_length) == IF n >= file_length THEN file_length - 1 ELSE n

\* the resolver without its while loop
BackwardWalk_NoLoop(lines, n, reads) ==
    IF ~PyInRange(lines, n)
    THEN [exc |-> "IndexError", line_number |-> n, reads |-> Append(reads, n)]
    ELSE [exc |-> NoExc, line_number |-> n, reads |-> Append(reads, n)]

\* target_line = lines[line_number]
\* while not target_line.strip(): line_number -= 1; target_line = lines[line_number]
\* reads lists every index handed to lines[...]
RECURSIVE BackwardWalk(_, _, _)
BackwardWalk(lines, n, reads) ==
    IF ~PyInRange(lines, n)
    THEN [exc |-> "IndexError", line_number |-> n, reads |-> Append(reads, n)]
    ELSE IF IsBlank(PyGet(lines, n))
         THEN BackwardWalk(lines, n - 1, Append(reads, n))
         ELSE [exc |-> NoExc, line_number |-> n, reads |-> Append(reads, n)]

\* prev_line taken with >= written for >
PrevLine_FromZero(lines, n) == IF n >= 0 THEN PyGet(lines, n - 1) ELSE <<>>

\* if line_number > 0: prev_line = lines[line_number - 1]
PrevLine(lines, n) == IF n > 0 THEN lines[n] ELSE <<>>

\* AnsibleError._get_error_lines_from_file(file_name, line_number)
GetErrorLinesFromFile(file_name, fstate, n) ==
    LET failed(e) == [exc |-> e, target_line |-> <<>>, prev_line |-> <<>>,
                      line_number |-> n, reads |-> <<>>]
    IN  IF OpenAndRead(file_name, fstate) # NoExc
        THEN failed(OpenAndRead(file_name, fstate))
        ELSE LET lines == fstate.lines
                 w     == BackwardWalk(lines, Clamp(n, Len(lines)), <<>>)
             IN  IF w.exc # NoExc
                 THEN [failed(w.exc) EXCEPT !.line_number = w.line_number, !.reads = w.reads]
                 ELSE [exc |-> NoExc,
                       target_line |-> PyGet(lines, w.line_number),
                       prev_line |-> PrevLine(lines, w.line_number),
                       line_number |-> w.line_number,
                       reads |-> w.reads]

\* ------------------------------------------------ the message fragments
Frag(kind) == [kind |-> kind, src |-> "", line |-> 0, col |-> 0, shown |-> <<>>, arrow |-> 0]
\* YAML_POSITION_DETAILS % (src_file, line, col)
PositionDetails(src, l, c) ==
    [Frag("YAML_POSITION_DETAILS") EXCEPT !.src = src, !.line = l, !.col = c]
\* "\nThe offending line appears to be:\n\n..." with the shown lines and the
\* number of spaces before "^ here"
OffendingLines(shown, arrow) ==
    [Frag("offending") EXCEPT !.shown = shown, !.arrow = arrow]
CouldNotOpen == Frag("(could not open file to display line)")
NoLongerInFile == Frag("(specified line no longer in file, maybe it changed?)")

ChainNotes == {"YAML_COMMON_UNQUOTED_VARIABLE_ERROR", "YAML_COMMON_DICT_ERROR",
               "YAML_COMMON_UNQUOTED_COLON_ERROR"}
QuoteNotes == {"YAML_COMMON_PARTIALLY_QUOTED_LINE_ERROR",
               "YAML_COMMON_UNBALANCED_QUOTES_ERROR"}
HeuristicNotes == ChainNotes \cup QuoteNotes
                    \cup {"YAML_COMMON_LEADING_TAB_ERROR", "YAML_AND_SHORTHAND_ERROR"}
Fallbacks == {CouldNotOpen.kind, NoLongerInFile.kind}

\* the kinds of the fragments of a message, in order
Kinds(msg) == [i \in DOMAIN msg |-> msg[i].kind]
Has(msg, kind) == \E i \in DOMAIN msg : msg[i].kind = kind
NotesOf(msg) == SelectSeq(Kinds(msg), LAMBDA k : k \in HeuristicNotes)

\* ------------------------------------------------------- the heuristics
\* the guard with or written for and
ShowsContent_Or(src, show) == src \notin {"<string>", "<unicode>"} \/ show

\* src_file not in ('<string>', '<unicode>') and self._show_content
ShowsContent(src, show) == src \notin {"<string>", "<unicode>"} /\ show

\* re.search(r'\w+(\s+)?=(\s+)?[\w/-]+', prev_line)
ShorthandMatch(s) ==
    \E i, j, k \in DOMAIN s :
        /\ i < j /\ j < k
        /\ IsWord(s[i])
        /\ \A m \in (i + 1)..(j - 1) : IsSpace(s[m])
        /\ s[j] = "="
        /\ \A m \in (j + 1)..(k - 1) : IsSpace(s[m])
        /\ IsWordPath(s[k])

OpenBraces == <<"{", "{">>
CloseBraces == <<"}", "}">>

\* ('{{' in target_line and '}}' in target_line) and
\* ('"{{' not in target_line or "'{{" not in target_line)
UnquotedVariable(t) ==
    /\ Contains(t, OpenBraces) /\ Contains(t, CloseBraces)
    /\ \/ ~Contains(t, <<"\"">> \o OpenBraces)
       \/ ~Contains(t, <<"'">> \o OpenBraces)

\* ":{{" in stripped_line and "}}" in stripped_line
DictMistake(t) ==
    /\ Contains(StripSpaces(t), <<":">> \o OpenBraces)
    /\ Contains(StripSpaces(t), CloseBraces)

\* the operands of the third test up to target_line[col_number]
ColonIndexed(t, col) == Len(t) # 0 /\ Len(t) > 1 /\ Len(t) > col
\* target_line[col_number] raises IndexError
ColonRaises(t, col) == ColonIndexed(t, col) /\ ~PyInRange(t, col)
UnquotedColon(t, col) ==
    /\ ColonIndexed(t, col)
    /\ PyInRange(t, col)
    /\ PyGet(t, col) = ":"
    /\ Count(t, ":") > 1

\* len(parts) > 1
HasParts(t) == Count(t, ":") >= 1
\* middle = parts[1].strip()
Middle(t) == Strip(SecondPart(t))
\* match
PartiallyQuoted(t) ==
    \/ StartsWith(Middle(t), "'") /\ ~EndsWith(Middle(t), "'")
    \/ StartsWith(Middle(t), "\"") /\ ~EndsWith(Middle(t), "\"")
\* unbalanced as the layout of the source suggests: a and b and c and (d or e)
UnbalancedQuotes_Grouped(t) ==
    /\ Len(Middle(t)) > 0
    /\ IsQuote(Middle(t)[1])
    /\ IsQuote(Middle(t)[Len(Middle(t))])
    /\ (Count(t, "'") > 2 \/ Count(t, "\"") > 2)

\* unbalanced: python reads "a and b and c and d or e" as "(a and b and c and d) or e"
UnbalancedQuotes(t) ==
    \/ /\ Len(Middle(t)) > 0
       /\ IsQuote(Middle(t)[1])
       /\ IsQuote(Middle(t)[Len(Middle(t))])
       /\ Count(t, "'") > 2
    \/ Count(t, "\"") > 2

\* the notes the final else branch appends
QuoteFragments(t) ==
    IF ~HasParts(t) THEN <<>>
    ELSE (IF PartiallyQuoted(t) THEN <<Frag("YAML_COMMON_PARTIALLY_QUOTED_LINE_ERROR")>> ELSE <<>>)
         \o (IF UnbalancedQuotes(t) THEN <<Frag("YAML_COMMON_UNBALANCED_QUOTES_ERROR")>> ELSE <<>>)

\* which arm of the if / elif / elif / else chain is taken
ChainArm(t, col) ==
    IF UnquotedVariable(t) THEN "YAML_COMMON_UNQUOTED_VARIABLE_ERROR"
    ELSE IF DictMistake(t) THEN "YAML_COMMON_DICT_ERROR"
    ELSE IF ColonRaises(t, col) THEN "IndexError"
    ELSE IF UnquotedColon(t, col) THEN "YAML_COMMON_UNQUOTED_COLON_ERROR"
    ELSE "else"

\* the except clauses with IOError left out of the first one
ExceptClause_TypeErrorOnly(e) ==
    IF "TypeError" \in Bases(e) THEN "IOError, TypeError"
    ELSE IF Bases(e) \cap {"IndexError", "IOError"} # {} THEN "IndexError"
    ELSE "uncaught"

\* which except clause of _get_extended_error takes an exception
ExceptClause(e) ==
    IF Bases(e) \cap {"IOError", "TypeError"} # {} THEN "IOError, TypeError"
    ELSE IF "IndexError" \in Bases(e) THEN "IndexError"
    ELSE "uncaught"


\* ---------------------------------------------------------------- state
VARIABLES
    src_file,       \* obj.ansible_pos[0]
    line_number,    \* obj.ansible_pos[1]
    col_number,     \* obj.ansible_pos[2]
    show_content,   \* self._show_content
    fs,             \* the file src_file names, as the file system holds it
    pc,             \* where _get_extended_error stands
    error_message,  \* the local error_message
    target_line,    \* the local target_line
    prev_line,      \* the local prev_line
    walk,           \* the resolver's own line_number and the indices it read
    opened,         \* number of open() calls made
    exc,            \* the exception in flight
    result          \* the value returned

errors_vars == <<src_file, line_number, col_number, show_content, fs, pc, error_message,
                 target_line, prev_line, walk, opened, exc, result>>

\* Singleton, one class whose metaclass it is
VARIABLES
    instance,       \* cls.__instance: 0 for None, else the identity of the object
    rlock,          \* cls.__rlock: its owner (0 when free) and its recursion count
    spc,            \* where each thread stands in Singleton.__call__
    constructed,    \* how many times super().__call__ has run
    returned,       \* the values calls have returned so far
    calls           \* calls each thread has completed

singleton_vars == <<instance, rlock, spc, constructed, returned, calls>>

\* makedirs_safe and the directory tree it works on
VARIABLES
    tree,           \* what each path is on disk: "absent", "dir" or "file"
    readonly,       \* the file system refuses to create anything
    mpc,            \* where each caller stands in makedirs_safe
    mpath,          \* the rpath of each caller
    merrno          \* errno of the OSError a caller's os.makedirs raised

makedirs_vars == <<tree, readonly, mpc, mpath, merrno>>

\* run_cmd and the child process it started
VARIABLES
    child,          \* "running" or "exited"
    wopen,          \* the pipes whose write end the child still holds open
    wrote,          \* every byte the child wrote to each pipe, in order
    pipe,           \* the bytes written to each pipe and not read yet
    rpc,            \* where run_cmd stands
    rpipes,         \* the local rpipes
    rfd,            \* the local rfd
    captured        \* the locals stdout and stderr

run_cmd_vars == <<child, wopen, wrote, pipe, rpc, rpipes, rfd, captured>>

utils_vars == <<singleton_vars, makedirs_vars, run_cmd_vars>>
vars == <<errors_vars, utils_vars>>

request == <<src_file, line_number, col_number, show_content, fs>>
NoWalk == [line_number |-> 0, reads |-> <<>>]
NoResult == <<Frag("not returned")>>

Threads == 1..NumThreads
\* no thread has called the class yet
SingletonAtRest ==
    /\ instance = 0
    /\ rlock = [owner |-> 0, count |-> 0]
    /\ spc = [t \in Threads |-> "idle"]
    /\ constructed = 0
    /\ returned = {}
    /\ calls = [t \in Threads |-> 0]

Callers == 1..NumCallers
\* nobody has called makedirs_safe
MakedirsAtRest ==
    /\ tree = [p \in {"/a", "/a/b", "/a/c"} |-> "absent"]
    /\ readonly = FALSE
    /\ mpc = [c \in Callers |-> "returned"]
    /\ mpath = [c \in Callers |-> "/a"]
    /\ merrno = [c \in Callers |-> "none"]

Pipes == {"stdout", "stderr"}
\* no command has been run
RunCmdAtRest ==
    /\ child = "exited"
    /\ wopen = {}
    /\ wrote = [p \in Pipes |-> <<>>]
    /\ pipe = [p \in Pipes |-> <<>>]
    /\ rpc = "returned"
    /\ rpipes = {}
    /\ rfd = {}
    /\ captured = [p \in Pipes |-> <<>>]

UtilsAtRest == SingletonAtRest /\ MakedirsAtRest /\ RunCmdAtRest

Init ==
    /\ UtilsAtRest
    /\ src_file \in SrcFiles
    /\ line_number \in LineNumbers
    /\ col_number \in ColNumbers
    /\ show_content \in BOOLEAN
    /\ fs \in FileStates
    /\ pc = "start"
    /\ error_message = <<>>
    /\ target_line = <<>>
    /\ prev_line = <<>>
    /\ walk = NoWalk
    /\ opened = 0
    /\ exc = NoExc
    /\ result = NoResult

\* return error_message
Return(msg) ==
    /\ pc' = "done"
    /\ result' = msg

\* error_message += YAML_POSITION_DETAILS % (src_file, line_number, col_number)
PositionHeader ==
    /\ pc = "start"
    /\ error_message' = error_message \o <<PositionDetails(src_file, line_number, col_number)>>
    /\ pc' = "guard"
    /\ UNCHANGED <<request, utils_vars, target_line, prev_line, walk, opened, exc, result>>

\* the guard of line 181 is false: nothing more is added
SkipContent ==
    /\ pc = "guard"
    /\ ~ShowsContent(src_file, show_content)
    /\ Return(error_message)
    /\ UNCHANGED <<request, utils_vars, error_message, target_line, prev_line, walk, opened, exc>>

\* (target_line, prev_line) = self._get_error_lines_from_file(src_file, line_number - 1)
\* followed by the test "if target_line:"
ReadErrorLines ==
    /\ pc = "guard"
    /\ ShowsContent(src_file, show_content)
    /\ LET r == GetErrorLinesFromFile(src_file, fs, line_number - 1)
       IN  /\ opened' = opened + 1
           /\ walk' = [line_number |-> r.line_number, reads |-> r.reads]
           /\ IF r.exc # NoExc
              THEN /\ exc' = r.exc
                   /\ pc' = "except"
                   /\ UNCHANGED <<target_line, prev_line, result>>
              ELSE /\ target_line' = r.target_line
                   /\ prev_line' = r.prev_line
                   /\ exc' = exc
                   /\ IF r.target_line # <<>>
                      THEN pc' = "position" /\ result' = result
                      ELSE Return(error_message)
    /\ UNCHANGED <<request, utils_vars, error_message>>

\* the shorthand branch with += written for = on the header
ShorthandPosition_Appends ==
    /\ pc = "position"
    /\ ShorthandMatch(prev_line)
    /\ LET error_position == Find(RStrip(prev_line), "=")
           arrow_line == Spaces(error_position)
       IN  error_message' = error_message \o
               << PositionDetails(src_file, line_number - 1, error_position + 1),
                  OffendingLines(<<RStrip(prev_line)>>, arrow_line),
                  Frag("YAML_AND_SHORTHAND_ERROR") >>
    /\ pc' = "tab"
    /\ UNCHANGED <<request, utils_vars, target_line, prev_line, walk, opened, exc, result>>

\* prev_line holds k=v shorthand: the header is rebuilt around the '=' of prev_line
ShorthandPosition ==
    /\ pc = "position"
    /\ ShorthandMatch(prev_line)
    /\ LET error_position == Find(RStrip(prev_line), "=")
           arrow_line == Spaces(error_position)
       IN  error_message' =
               << PositionDetails(src_file, line_number - 1, error_position + 1),
                  OffendingLines(<<RStrip(prev_line)>>, arrow_line),
                  Frag("YAML_AND_SHORTHAND_ERROR") >>
    /\ pc' = "tab"
    /\ UNCHANGED <<request, utils_vars, target_line, prev_line, walk, opened, exc, result>>

\* otherwise the arrow is put under col_number
ColumnPosition ==
    /\ pc = "position"
    /\ ~ShorthandMatch(prev_line)
    /\ LET arrow_line == Spaces(col_number - 1)
       IN  error_message' = error_message \o
               <<OffendingLines(<<RStrip(prev_line), RStrip(target_line)>>, arrow_line)>>
    /\ pc' = "tab"
    /\ UNCHANGED <<request, utils_vars, target_line, prev_line, walk, opened, exc, result>>

\* the tab test made on prev_line
LeadingTabCheck_PrevLine ==
    /\ pc = "tab"
    /\ error_message' =
          IF Contains(prev_line, <<"\t">>)
          THEN error_message \o <<Frag("YAML_COMMON_LEADING_TAB_ERROR")>>
          ELSE error_message
    /\ pc' = "chain"
    /\ UNCHANGED <<request, utils_vars, target_line, prev_line, walk, opened, exc, result>>

\* if '\t' in target_line
LeadingTabCheck ==
    /\ pc = "tab"
    /\ error_message' =
          IF Contains(target_line, <<"\t">>)
          THEN error_message \o <<Frag("YAML_COMMON_LEADING_TAB_ERROR")>>
          ELSE error_message
    /\ pc' = "chain"
    /\ UNCHANGED <<request, utils_vars, target_line, prev_line, walk, opened, exc, result>>

\* the chain written as three separate ifs
CommonChecks_SeparateIfs ==
    /\ pc = "chain"
    /\ LET t == target_line
           first == (IF UnquotedVariable(t)
                     THEN <<Frag("YAML_COMMON_UNQUOTED_VARIABLE_ERROR")>> ELSE <<>>)
                    \o (IF DictMistake(t) THEN <<Frag("YAML_COMMON_DICT_ERROR")>> ELSE <<>>)
           third == IF UnquotedColon(t, col_number)
                    THEN <<Frag("YAML_COMMON_UNQUOTED_COLON_ERROR")>> ELSE <<>>
       IN  IF ColonRaises(t, col_number)
           THEN /\ error_message' = error_message \o first
                /\ exc' = "IndexError"
                /\ pc' = "except"
                /\ result' = result
           ELSE IF first \o third = <<>>
           THEN /\ pc' = "quotes"
                /\ UNCHANGED <<error_message, exc, result>>
           ELSE /\ error_message' = error_message \o first \o third
                /\ Return(error_message')
                /\ exc' = exc
    /\ UNCHANGED <<request, utils_vars, target_line, prev_line, walk, opened>>

\* the chain with the quote checks taken out of its else arm and run after it
CommonChecks_ThenQuotes ==
    /\ pc = "chain"
    /\ LET arm == ChainArm(target_line, col_number)
       IN  CASE arm = "IndexError" ->
                  /\ exc' = "IndexError"
                  /\ pc' = "except"
                  /\ UNCHANGED <<error_message, result>>
             [] arm = "else" ->
                  /\ pc' = "quotes"
                  /\ UNCHANGED <<error_message, exc, result>>
             [] OTHER ->
                  /\ error_message' = error_message \o <<Frag(arm)>>
                  /\ pc' = "quotes"
                  /\ UNCHANGED <<exc, result>>
    /\ UNCHANGED <<request, utils_vars, target_line, prev_line, walk, opened>>

\* the if / elif / elif chain; its else arm is QuoteChecks
CommonChecks ==
    /\ pc = "chain"
    /\ LET arm == ChainArm(target_line, col_number)
       IN  CASE arm = "IndexError" ->
                  /\ exc' = "IndexError"
                  /\ pc' = "except"
                  /\ UNCHANGED <<error_message, result>>
             [] arm = "else" ->
                  /\ pc' = "quotes"
                  /\ UNCHANGED <<error_message, exc, result>>
             [] OTHER ->
                  /\ error_message' = error_message \o <<Frag(arm)>>
                  /\ Return(error_message')
                  /\ exc' = exc
    /\ UNCHANGED <<request, utils_vars, target_line, prev_line, walk, opened>>

\* the else arm: partially quoted line, unbalanced quotes
QuoteChecks ==
    /\ pc = "quotes"
    /\ error_message' = error_message \o QuoteFragments(target_line)
    /\ Return(error_message')
    /\ UNCHANGED <<request, utils_vars, target_line, prev_line, walk, opened, exc>>

\* except (IOError, TypeError)
ExceptIOError ==
    /\ pc = "except"
    /\ ExceptClause(exc) = "IOError, TypeError"
    /\ error_message' = error_message \o <<CouldNotOpen>>
    /\ exc' = NoExc
    /\ Return(error_message')
    /\ UNCHANGED <<request, utils_vars, target_line, prev_line, walk, opened>>

\* except IndexError
ExceptIndexError ==
    /\ pc = "except"
    /\ ExceptClause(exc) = "IndexError"
    /\ error_message' = error_message \o <<NoLongerInFile>>
    /\ exc' = NoExc
    /\ Return(error_message')
    /\ UNCHANGED <<request, utils_vars, target_line, prev_line, walk, opened>>

\* no except clause matches: the exception leaves _get_extended_error
Propagate ==
    /\ pc = "except"
    /\ ExceptClause(exc) = "uncaught"
    /\ pc' = "raised"
    /\ UNCHANGED <<request, utils_vars, error_message, target_line, prev_line, walk, opened, exc, result>>

Next ==
    \/ PositionHeader
    \/ SkipContent
    \/ ReadErrorLines
    \/ ShorthandPosition
    \/ ColumnPosition
    \/ LeadingTabCheck
    \/ CommonChecks
    \/ QuoteChecks
    \/ ExceptIOError
    \/ ExceptIndexError
    \/ Propagate

Spec == Init /\ [][Next]_vars


\* ------------------------------------------- Singleton.__call__, threads
\* a thread calls the class: cls(*args, **kw)
SingletonCall(t) ==
    /\ spc[t] = "idle"
    /\ calls[t] < MaxCalls
    /\ spc' = [spc EXCEPT ![t] = "check"]
    /\ UNCHANGED <<errors_vars, makedirs_vars, run_cmd_vars, instance, rlock, constructed, returned, calls>>

\* if cls.__instance is not None: return cls.__instance
SingletonFastPath(t) ==
    /\ spc[t] = "check"
    /\ IF instance # 0
       THEN /\ returned' = returned \cup {instance}
            /\ calls' = [calls EXCEPT ![t] = @ + 1]
            /\ spc' = [spc EXCEPT ![t] = "idle"]
       ELSE /\ spc' = [spc EXCEPT ![t] = "acquire"]
            /\ UNCHANGED <<returned, calls>>
    /\ UNCHANGED <<errors_vars, makedirs_vars, run_cmd_vars, instance, rlock, constructed>>

\* with cls.__rlock: entered when the lock is free or already held by t
SingletonAcquire(t) ==
    /\ spc[t] = "acquire"
    /\ rlock.owner \in {0, t}
    /\ rlock' = [owner |-> t, count |-> rlock.count + 1]
    /\ spc' = [spc EXCEPT ![t] = "locked"]
    /\ UNCHANGED <<errors_vars, makedirs_vars, run_cmd_vars, instance, constructed, returned, calls>>

\* the test under the lock left out
SingletonRecheck_Always(t) ==
    /\ spc[t] = "locked"
    /\ spc' = [spc EXCEPT ![t] = "construct"]
    /\ UNCHANGED <<errors_vars, makedirs_vars, run_cmd_vars, instance, rlock, constructed, returned, calls>>

\* if cls.__instance is None, under the lock
SingletonRecheck(t) ==
    /\ spc[t] = "locked"
    /\ spc' = [spc EXCEPT ![t] = IF instance = 0 THEN "construct" ELSE "release"]
    /\ UNCHANGED <<errors_vars, makedirs_vars, run_cmd_vars, instance, rlock, constructed, returned, calls>>

\* cls.__instance = super(Singleton, cls).__call__(*args, **kw)
SingletonConstruct(t) ==
    /\ spc[t] = "construct"
    /\ constructed' = constructed + 1
    /\ instance' = constructed + 1
    /\ spc' = [spc EXCEPT ![t] = "release"]
    /\ UNCHANGED <<errors_vars, makedirs_vars, run_cmd_vars, rlock, returned, calls>>

\* leaving the with block
SingletonRelease(t) ==
    /\ spc[t] = "release"
    /\ rlock.owner = t
    /\ rlock' = IF rlock.count = 1 THEN [owner |-> 0, count |-> 0]
                ELSE [rlock EXCEPT !.count = @ - 1]
    /\ spc' = [spc EXCEPT ![t] = "return"]
    /\ UNCHANGED <<errors_vars, makedirs_vars, run_cmd_vars, instance, constructed, returned, calls>>

\* return cls.__instance
SingletonReturn(t) ==
    /\ spc[t] = "return"
    /\ returned' = returned \cup {instance}
    /\ calls' = [calls EXCEPT ![t] = @ + 1]
    /\ spc' = [spc EXCEPT ![t] = "idle"]
    /\ UNCHANGED <<errors_vars, makedirs_vars, run_cmd_vars, instance, rlock, constructed>>

ErrorsAtRest ==
    /\ src_file = "<string>"
    /\ line_number = 1
    /\ col_number = 1
    /\ show_content = FALSE
    /\ fs = [kind |-> "missing", lines |-> <<>>]
    /\ pc = "done"
    /\ error_message = <<>>
    /\ target_line = <<>>
    /\ prev_line = <<>>
    /\ walk = NoWalk
    /\ opened = 0
    /\ exc = NoExc
    /\ result = NoResult

InitSingleton == ErrorsAtRest /\ MakedirsAtRest /\ RunCmdAtRest /\ SingletonAtRest

NextSingleton ==
    \E t \in Threads :
        \/ SingletonCall(t)
        \/ SingletonFastPath(t)
        \/ SingletonAcquire(t)
        \/ SingletonRecheck(t)
        \/ SingletonConstruct(t)
        \/ SingletonRelease(t)
        \/ SingletonReturn(t)

SpecSingleton == InitSingleton /\ [][NextSingleton]_vars

\* --------------------------------------------- makedirs_safe, concurrent
DirPaths == {"/a", "/a/b", "/a/c"}
\* os.path.split(p)[0]
HeadOf(p) == IF p = "/a" THEN "/" ELSE "/a"
\* os.path.exists(p); the root is always there
Exists(tr, p) == p = "/" \/ tr[p] # "absent"
IsDir(tr, p) == p = "/" \/ tr[p] = "dir"
\* a tree in which only directories have entries below them
WellFormed(tr) == \A p \in DirPaths : tr[p] # "absent" => IsDir(tr, HeadOf(p))

\* os.mkdir(p): "ok" or the errno it fails with
Mkdir(tr, ro, p) ==
    IF ~Exists(tr, HeadOf(p)) THEN "ENOENT"
    ELSE IF ~IsDir(tr, HeadOf(p)) THEN "ENOTDIR"
    ELSE IF Exists(tr, p) THEN "EEXIST"
    ELSE IF ro THEN "EROFS"
    ELSE "ok"

\* rpath = unfrackpath(path); if not os.path.exists(b_rpath):
MakedirsExists(c) ==
    /\ mpc[c] = "exists"
    /\ mpc' = [mpc EXCEPT ![c] = IF Exists(tree, mpath[c]) THEN "returned" ELSE "makedirs"]
    /\ UNCHANGED <<errors_vars, singleton_vars, run_cmd_vars, tree, readonly, mpath, merrno>>

\* os.makedirs: if head and tail and not path.exists(head)
MakedirsHeadExists(c) ==
    /\ mpc[c] = "makedirs"
    /\ mpc' = [mpc EXCEPT ![c] = IF Exists(tree, HeadOf(mpath[c])) THEN "mkdir" ELSE "mkdir_head"]
    /\ UNCHANGED <<errors_vars, singleton_vars, run_cmd_vars, tree, readonly, mpath, merrno>>

\* os.makedirs: makedirs(head, exist_ok=exist_ok), FileExistsError passed over
MakedirsHead(c) ==
    /\ mpc[c] = "mkdir_head"
    /\ LET e == Mkdir(tree, readonly, HeadOf(mpath[c]))
       IN  CASE e = "ok" ->
                  /\ tree' = [tree EXCEPT ![HeadOf(mpath[c])] = "dir"]
                  /\ mpc' = [mpc EXCEPT ![c] = "mkdir"]
                  /\ merrno' = merrno
             [] e = "EEXIST" ->
                  /\ mpc' = [mpc EXCEPT ![c] = "mkdir"]
                  /\ UNCHANGED <<tree, merrno>>
             [] OTHER ->
                  /\ merrno' = [merrno EXCEPT ![c] = e]
                  /\ mpc' = [mpc EXCEPT ![c] = "except"]
                  /\ tree' = tree
    /\ UNCHANGED <<errors_vars, singleton_vars, run_cmd_vars, readonly, mpath>>

\* os.makedirs: mkdir(name, mode), any OSError raised on
MakedirsLeaf(c) ==
    /\ mpc[c] = "mkdir"
    /\ LET e == Mkdir(tree, readonly, mpath[c])
       IN  IF e = "ok"
           THEN /\ tree' = [tree EXCEPT ![mpath[c]] = "dir"]
                /\ mpc' = [mpc EXCEPT ![c] = "returned"]
                /\ merrno' = merrno
           ELSE /\ merrno' = [merrno EXCEPT ![c] = e]
                /\ mpc' = [mpc EXCEPT ![c] = "except"]
                /\ tree' = tree
    /\ UNCHANGED <<errors_vars, singleton_vars, run_cmd_vars, readonly, mpath>>

\* except OSError as e: if e.errno != EEXIST: raise AnsibleError(...)
MakedirsExcept(c) ==
    /\ mpc[c] = "except"
    /\ mpc' = [mpc EXCEPT ![c] = IF merrno[c] # "EEXIST" THEN "raised" ELSE "returned"]
    /\ UNCHANGED <<errors_vars, singleton_vars, run_cmd_vars, tree, readonly, mpath, merrno>>

InitMakedirs ==
    /\ ErrorsAtRest /\ SingletonAtRest /\ RunCmdAtRest
    /\ tree \in {tr \in [DirPaths -> {"absent", "dir", "file"}] : WellFormed(tr)}
    /\ readonly \in BOOLEAN
    /\ mpc = [c \in Callers |-> "exists"]
    /\ mpath \in [Callers -> DirPaths]
    /\ merrno = [c \in Callers |-> "none"]

NextMakedirs ==
    \E c \in Callers :
        \/ MakedirsExists(c)
        \/ MakedirsHeadExists(c)
        \/ MakedirsHead(c)
        \/ MakedirsLeaf(c)
        \/ MakedirsExcept(c)

SpecMakedirs == InitMakedirs /\ [][NextMakedirs]_vars

\* ------------------------------------------------- run_cmd and its child
\* the child writes one more byte to a pipe it still holds open
ChildWrite(p) ==
    /\ child = "running" /\ p \in wopen
    /\ Len(wrote[p]) < MaxBytes
    /\ wrote' = [wrote EXCEPT ![p] = Append(@, Len(@) + 1)]
    /\ pipe' = [pipe EXCEPT ![p] = Append(@, Len(wrote[p]) + 1)]
    /\ UNCHANGED <<errors_vars, singleton_vars, makedirs_vars, child, wopen, rpc, rpipes, rfd, captured>>

\* the child closes its end of a pipe
ChildClose(p) ==
    /\ child = "running" /\ p \in wopen
    /\ wopen' = wopen \ {p}
    /\ UNCHANGED <<errors_vars, singleton_vars, makedirs_vars, child, wrote, pipe, rpc, rpipes, rfd, captured>>

\* the child terminates, which closes the ends it still held
ChildExit ==
    /\ child = "running"
    /\ child' = "exited"
    /\ wopen' = {}
    /\ UNCHANGED <<errors_vars, singleton_vars, makedirs_vars, wrote, pipe, rpc, rpipes, rfd, captured>>

\* a pipe select reports: it has bytes or is at end of file
Readable_(p) == pipe[p] # <<>> \/ p \notin wopen

\* rfd, wfd, efd = select.select(rpipes, [], rpipes, 1); nothing readable
\* when it returns is the timeout
Select ==
    /\ rpc = "select"
    /\ rfd' = {p \in rpipes : Readable_(p)}
    /\ rpc' = "read_stdout"
    /\ UNCHANGED <<errors_vars, singleton_vars, makedirs_vars, child, wopen, wrote, pipe, rpipes, captured>>

\* dat = os.read(fd, readsize)
Dat(p) == SubSeq(pipe[p], 1, Min({ReadSize, Len(pipe[p])}))

\* if p in rfd: dat = os.read(...); out += dat; if dat == b'': rpipes.remove(p)
ReadPipe(p, next) ==
    /\ rpc' = next
    /\ IF p \in rfd
       THEN /\ captured' = [captured EXCEPT ![p] = @ \o Dat(p)]
            /\ pipe' = [pipe EXCEPT ![p] = SubSeq(@, Len(Dat(p)) + 1, Len(@))]
            /\ rpipes' = IF Dat(p) = <<>> THEN rpipes \ {p} ELSE rpipes
       ELSE UNCHANGED <<captured, pipe, rpipes>>
    /\ UNCHANGED <<errors_vars, singleton_vars, makedirs_vars, child, wopen, wrote, rfd>>

ReadStdout == rpc = "read_stdout" /\ ReadPipe("stdout", "read_stderr")

ReadStderr == rpc = "read_stderr" /\ ReadPipe("stderr", "check")

\* if (not rpipes or not rfd) and p.poll() is not None: break
CheckBreak ==
    /\ rpc = "check"
    /\ rpc' = IF (rpipes = {} \/ rfd = {}) /\ child = "exited" THEN "returned" ELSE "elif"
    /\ UNCHANGED <<errors_vars, singleton_vars, makedirs_vars, child, wopen, wrote, pipe, rpipes, rfd, captured>>

\* elif not rpipes and p.poll() is None: p.wait()
CheckWait ==
    /\ rpc = "elif"
    /\ rpc' = IF rpipes = {} /\ child = "running" THEN "wait" ELSE "select"
    /\ UNCHANGED <<errors_vars, singleton_vars, makedirs_vars, child, wopen, wrote, pipe, rpipes, rfd, captured>>

\* p.wait() returns once the child has terminated
Wait ==
    /\ rpc = "wait"
    /\ child = "exited"
    /\ rpc' = "select"
    /\ UNCHANGED <<errors_vars, singleton_vars, makedirs_vars, child, wopen, wrote, pipe, rpipes, rfd, captured>>

InitRunCmd ==
    /\ ErrorsAtRest /\ SingletonAtRest /\ MakedirsAtRest
    /\ child = "running"
    /\ wopen = Pipes
    /\ wrote = [p \in Pipes |-> <<>>]
    /\ pipe = [p \in Pipes |-> <<>>]
    /\ rpc = "select"
    /\ rpipes = Pipes
    /\ rfd = {}
    /\ captured = [p \in Pipes |-> <<>>]

NextRunCmd ==
    \/ \E p \in Pipes : ChildWrite(p)
    \/ \E p \in Pipes : ChildClose(p)
    \/ ChildExit
    \/ Select
    \/ ReadStdout
    \/ ReadStderr
    \/ CheckBreak
    \/ CheckWait
    \/ Wait

SpecRunCmd == InitRunCmd /\ [][NextRunCmd]_vars

\* =========================================================== the claims
Sentinels == {"<string>", "<unicode>"}
Header == PositionDetails(src_file, line_number, col_number)
\* line and column as a parser reports them, 1-based
ValidRequest == line_number >= 1 /\ col_number >= 1
\* the request asks for file content
ContentRequested == show_content /\ src_file \notin Sentinels
\* open() and readlines() succeed for this request
Readable == src_file # NotAPath /\ fs.kind = "ok"
\* the resolver has just returned its pair
Returned == pc = "position"
\* the resolver has just returned or raised
AfterRead == opened = 1 /\ Len(error_message) = 1 /\ pc \in {"position", "except"}
\* the index the resolver starts its walk from, for a request inside or
\* beyond a file
StartIndex ==
    IF line_number - 1 >= Len(fs.lines) THEN Len(fs.lines) - 1 ELSE line_number - 1
NonBlankAt(i) == \E j \in DOMAIN fs.lines[i + 1] : fs.lines[i + 1][j] \notin {" ", "\t", "\n"}
\* 1-based position in the file of the line the resolver stopped at
TargetPos ==
    IF walk.line_number >= 0 THEN walk.line_number + 1
    ELSE Len(fs.lines) + walk.line_number + 1

\* C1: when show_content is false or the source is '<string>' / '<unicode>',
\* no file is opened and the value returned is the positional header alone.
C1_SuppressedIsHeaderOnly ==
    (~show_content \/ src_file \in Sentinels) =>
        /\ opened = 0
        /\ pc \in {"start", "guard", "done"}
        /\ pc = "done" => result = <<Header>>

C1_Witness ==
    /\ pc = "done" /\ ~show_content /\ src_file = "play.yml"
    /\ fs.kind = "ok" /\ Len(fs.lines) > 0
    /\ result = <<Header>>

\* C2: no exception leaves _get_extended_error, whatever the request and
\* the state of the file.
C2_NeverRaises == pc # "raised"

\* C3: when open() or the read fails (file missing, unreadable, path of the
\* wrong type) the value returned is the original header followed by the
\* sentence '(could not open file to display line)' and nothing else.
C3_CouldNotOpen ==
    (ContentRequested /\ (src_file = NotAPath \/ fs.kind \in {"missing", "unreadable"})) =>
        /\ pc # "raised"
        /\ pc = "done" => result = <<Header, CouldNotOpen>>

C3_Witness ==
    /\ pc = "done" /\ show_content /\ src_file = "play.yml" /\ fs.kind = "missing"
    /\ result = <<Header, CouldNotOpen>>

\* C4: for a requested index inside the file, a returned target_line is
\* non-blank, prev_line is the line just above it, and prev_line is empty
\* only when target_line is the first line of the file.
C4_PrevIsLineAbove ==
    (Returned /\ 0 <= line_number - 1 /\ line_number - 1 < Len(fs.lines)) =>
        /\ target_line = fs.lines[TargetPos]
        /\ NonBlankAt(TargetPos - 1)
        /\ prev_line = (IF TargetPos = 1 THEN <<>> ELSE fs.lines[TargetPos - 1])

\* C5: when every line from the starting index down to index 0 is blank the
\* resolver returns no line and the output is the header followed by
\* '(specified line no longer in file, maybe it changed?)'.
C5_UnderflowIsIndexError ==
    (/\ ContentRequested /\ Readable
     /\ line_number - 1 >= 0
     /\ \A i \in 0..StartIndex : ~NonBlankAt(i)) =>
        /\ pc \notin {"position", "tab", "chain", "quotes", "raised"}
        /\ pc = "done" => result = <<Header, NoLongerInFile>>

\* C6: when prev_line is k=v shorthand the only heuristic note of the
\* output is the mixed shorthand/structured-syntax note.
C6_ShorthandIsOnlyNote ==
    (pc = "done" /\ ValidRequest /\ ShorthandMatch(prev_line)) =>
        NotesOf(result) = <<"YAML_AND_SHORTHAND_ERROR">>

\* C7 as stated: a target_line that gets one of the unquoted-variable, dict
\* or unquoted-colon notes and meets a quote-balance condition gets the
\* quote-balance note too.
C7_QuoteChecksIndependent ==
    (pc = "done" /\ ValidRequest /\ \E k \in ChainNotes : Has(result, k)) =>
        /\ (HasParts(target_line) /\ PartiallyQuoted(target_line))
              => Has(result, "YAML_COMMON_PARTIALLY_QUOTED_LINE_ERROR")
        /\ (HasParts(target_line) /\ UnbalancedQuotes(target_line))
              => Has(result, "YAML_COMMON_UNBALANCED_QUOTES_ERROR")

\* C7 amended: the quote-balance checks are the else arm of the chain. A
\* target_line that gets one of the unquoted-variable, dict or
\* unquoted-colon notes gets no quote-balance note; a resolved target_line
\* that gets none of the three is checked for both quote-balance conditions.
C7_QuoteChecksAreElseArm ==
    /\ (pc = "done" /\ \E k \in ChainNotes : Has(result, k)) =>
           \A q \in QuoteNotes : ~Has(result, q)
    /\ (/\ pc = "done" /\ Has(result, "offending")
        /\ \A k \in ChainNotes \cup Fallbacks : ~Has(result, k)) =>
           /\ Has(result, "YAML_COMMON_PARTIALLY_QUOTED_LINE_ERROR")
                 <=> (HasParts(target_line) /\ PartiallyQuoted(target_line))
           /\ Has(result, "YAML_COMMON_UNBALANCED_QUOTES_ERROR")
                 <=> (HasParts(target_line) /\ UnbalancedQuotes(target_line))

C7_Witness ==
    /\ pc = "done"
    /\ Has(result, "YAML_COMMON_UNQUOTED_VARIABLE_ERROR")
    /\ HasParts(target_line) /\ PartiallyQuoted(target_line)
    /\ ~Has(result, "YAML_COMMON_PARTIALLY_QUOTED_LINE_ERROR")

\* C8: when a non-blank line exists at or before the starting index, the
\* resolver returns the nearest such line: the line at the index itself
\* when it is non-blank, else the closest non-blank line above it.
C8_NearestNonBlankBefore ==
    (/\ AfterRead /\ Readable /\ line_number - 1 >= 0
     /\ \E i \in 0..StartIndex : NonBlankAt(i)) =>
        LET nearest == Max({i \in 0..StartIndex : NonBlankAt(i)})
        IN  /\ Returned
            /\ walk.line_number = nearest
            /\ target_line = fs.lines[nearest + 1]

C8_Witness ==
    /\ Returned /\ Len(fs.lines) = 3 /\ line_number = 3
    /\ ~NonBlankAt(2) /\ ~NonBlankAt(1) /\ NonBlankAt(0)
    /\ target_line = fs.lines[1]

\* C9: for a non-empty file, a requested index at or beyond the number of
\* lines gives what the index of the last line gives, and no index read is
\* >= the file length.
C9_ClampToLastLine ==
    (AfterRead /\ Readable /\ Len(fs.lines) > 0 /\ line_number - 1 >= Len(fs.lines)) =>
        LET last == GetErrorLinesFromFile(src_file, fs, Len(fs.lines) - 1)
        IN  /\ (pc = "except") <=> (last.exc # NoExc)
            /\ pc = "except" => exc = last.exc
            /\ Returned => /\ target_line = last.target_line
                           /\ prev_line = last.prev_line
            /\ walk.reads = last.reads
            /\ \A i \in DOMAIN walk.reads : walk.reads[i] < Len(fs.lines)

C9_Witness ==
    /\ Returned /\ Len(fs.lines) > 0 /\ line_number - 1 > Len(fs.lines)
    /\ target_line = fs.lines[Len(fs.lines)]

\* C10: in the shorthand diagnosis the message starts with a single header
\* reading line_number - 1 and column k + 1, k the 0-based index of '=' in
\* the right-trimmed prev_line; the block shows that line over k spaces and
\* '^ here', so header column and caret name the same '='.
C10_ShorthandHeader ==
    (pc \in {"tab", "chain", "quotes", "except", "done"} /\ ShorthandMatch(prev_line)) =>
        LET shown == RStrip(prev_line)
            k == Min({i \in DOMAIN shown : shown[i] = "="}) - 1
        IN  /\ Len(error_message) >= 3
            /\ error_message[1] = PositionDetails(src_file, line_number - 1, k + 1)
            /\ error_message[2] = OffendingLines(<<shown>>, k)
            /\ error_message[3].kind = "YAML_AND_SHORTHAND_ERROR"
            /\ \A i \in DOMAIN error_message :
                   error_message[i].kind = "YAML_POSITION_DETAILS" => i = 1
            /\ error_message[2].shown[1][error_message[1].col] = "="
            /\ error_message[2].arrow = error_message[1].col - 1

C10_Witness ==
    /\ pc = "done" /\ ShorthandMatch(prev_line)
    /\ result[1] = PositionDetails(src_file, line_number - 1, 3)
    /\ result[2] = OffendingLines(<<SubSeq(ShorthandLine, 1, 4)>>, 2)


\* the resolver returned a pair and a block of offending lines was written
Resolved == Has(result, "offending")
HasTab(t) == \E i \in DOMAIN t : t[i] = "\t"
\* position of the first fragment of a kind in a message, 0 when absent
IndexOf(msg, kind) ==
    IF Has(msg, kind) THEN Min({i \in DOMAIN msg : msg[i].kind = kind}) ELSE 0
\* the raw pattern of the unquoted-colon test is present in the line
RawColonPattern(t, col) == PyInRange(t, col) /\ PyGet(t, col) = ":" /\ Count(t, ":") > 1

\* C11: at most one of the unquoted-variable, dict and unquoted-colon notes
\* is in an output; a target_line meeting the unquoted-variable condition
\* gets neither of the other two, whatever else it contains.
C11_ChainIsExclusive ==
    pc = "done" =>
        /\ Cardinality({i \in DOMAIN result : result[i].kind \in ChainNotes}) <= 1
        /\ (Resolved /\ UnquotedVariable(target_line)) =>
               /\ Has(result, "YAML_COMMON_UNQUOTED_VARIABLE_ERROR")
               /\ ~Has(result, "YAML_COMMON_DICT_ERROR")
               /\ ~Has(result, "YAML_COMMON_UNQUOTED_COLON_ERROR")

C11_Witness ==
    /\ pc = "done" /\ ValidRequest
    /\ DictMistake(target_line) /\ RawColonPattern(target_line, col_number)
    /\ Has(result, "YAML_COMMON_UNQUOTED_VARIABLE_ERROR")
    /\ ~Has(result, "YAML_COMMON_DICT_ERROR")
    /\ ~Has(result, "YAML_COMMON_UNQUOTED_COLON_ERROR")

\* C12 as stated: without shorthand the tab note is there exactly when
\* target_line holds a tab, and a target_line with a tab that meets the
\* unbalanced-quotes condition gets the tab note and then the
\* unbalanced-quotes note.
C12_TabAndQuotesBoth ==
    (pc = "done" /\ ValidRequest /\ Resolved /\ ~ShorthandMatch(prev_line)) =>
        /\ Has(result, "YAML_COMMON_LEADING_TAB_ERROR") <=> HasTab(target_line)
        /\ (HasTab(target_line) /\ HasParts(target_line) /\ UnbalancedQuotes(target_line)) =>
               /\ Has(result, "YAML_COMMON_UNBALANCED_QUOTES_ERROR")
               /\ IndexOf(result, "YAML_COMMON_LEADING_TAB_ERROR")
                     < IndexOf(result, "YAML_COMMON_UNBALANCED_QUOTES_ERROR")

\* C12 amended: without shorthand the tab note is there exactly when
\* target_line holds a tab, whatever the other checks do; a target_line with
\* a tab that meets the unbalanced-quotes condition gets the tab note and
\* then the unbalanced-quotes note when none of the unquoted-variable, dict
\* and unquoted-colon notes fired, and the tab note alone of the two when
\* one of them fired.
C12_TabIsIndependent ==
    (pc = "done" /\ Resolved /\ ~ShorthandMatch(prev_line)) =>
        /\ Has(result, "YAML_COMMON_LEADING_TAB_ERROR") <=> HasTab(target_line)
        /\ Has(result, "YAML_COMMON_LEADING_TAB_ERROR") =>
               IndexOf(result, "YAML_COMMON_LEADING_TAB_ERROR") = 3
        /\ (/\ HasTab(target_line) /\ HasParts(target_line) /\ UnbalancedQuotes(target_line)
            /\ \A k \in Fallbacks : ~Has(result, k)) =>
               IF \E k \in ChainNotes : Has(result, k)
               THEN ~Has(result, "YAML_COMMON_UNBALANCED_QUOTES_ERROR")
               ELSE /\ Has(result, "YAML_COMMON_UNBALANCED_QUOTES_ERROR")
                    /\ IndexOf(result, "YAML_COMMON_LEADING_TAB_ERROR")
                          < IndexOf(result, "YAML_COMMON_UNBALANCED_QUOTES_ERROR")

C12_Witness ==
    /\ pc = "done" /\ ValidRequest /\ ~ShorthandMatch(prev_line)
    /\ HasTab(target_line)
    /\ NotesOf(result) = <<"YAML_COMMON_LEADING_TAB_ERROR", "YAML_COMMON_UNBALANCED_QUOTES_ERROR">>

\* C13: for a request with line >= 1 and column >= 1 every positional
\* header of the output carries a line >= 1 and a column >= 1, the header
\* rewritten by the shorthand check included.
C13_HeaderIsOneBased ==
    (pc = "done" /\ ValidRequest) =>
        \A i \in DOMAIN result :
            result[i].kind = "YAML_POSITION_DETAILS" =>
                result[i].line >= 1 /\ result[i].col >= 1

C13_Witness ==
    /\ pc = "done" /\ ValidRequest
    /\ Has(result, "YAML_AND_SHORTHAND_ERROR")
    /\ result[1].line = line_number - 1 /\ result[1].line = 1
    /\ result[1].col = 3

\* C16: a target_line holding '{{' and '}}' gets the unquoted-variable note
\* unless it holds '"{{'; key: "{{ value }}" does not get the note.
C16_DoubleQuotedIsNotUnquoted ==
    (/\ pc = "done" /\ ValidRequest /\ Resolved
     /\ Contains(target_line, OpenBraces) /\ Contains(target_line, CloseBraces)) =>
        (Has(result, "YAML_COMMON_UNQUOTED_VARIABLE_ERROR")
            <=> ~Contains(target_line, <<"\"", "{", "{">>))

\* C17: when neither the unquoted-variable nor the dict note fired, the
\* unquoted-colon note is there exactly when the character under the caret
\* (column_number - 1 spaces in) exists, is ':' and the line has more than
\* one ':'.
C17_ColonUnderCaret ==
    (/\ pc = "done" /\ ValidRequest /\ Resolved /\ ~ShorthandMatch(prev_line)
     /\ ~Has(result, "YAML_COMMON_UNQUOTED_VARIABLE_ERROR")
     /\ ~Has(result, "YAML_COMMON_DICT_ERROR")) =>
        (Has(result, "YAML_COMMON_UNQUOTED_COLON_ERROR")
            <=> /\ col_number <= Len(target_line)
                /\ target_line[col_number] = ":"
                /\ Cardinality({i \in DOMAIN target_line : target_line[i] = ":"}) > 1)

\* C18: when the quote-balance check runs on a target_line with a ':', the
\* unbalanced-quotes note is there exactly when (middle is non-empty, starts
\* and ends with a quote character and the line has more than two single
\* quotes) or the line has more than two double quotes.
C18_UnbalancedPrecedence ==
    (/\ pc = "done" /\ Resolved
     /\ \A k \in ChainNotes \cup Fallbacks : ~Has(result, k)
     /\ \E i \in DOMAIN target_line : target_line[i] = ":") =>
        LET m == Middle(target_line)
            singles == Cardinality({i \in DOMAIN target_line : target_line[i] = "'"})
            doubles == Cardinality({i \in DOMAIN target_line : target_line[i] = "\""})
        IN  Has(result, "YAML_COMMON_UNBALANCED_QUOTES_ERROR")
                <=> \/ /\ Len(m) > 0
                       /\ m[1] \in {"'", "\""} /\ m[Len(m)] \in {"'", "\""}
                       /\ singles > 2
                    \/ doubles > 2

C18_Witness ==
    /\ pc = "done" /\ ValidRequest
    /\ Has(result, "YAML_COMMON_UNBALANCED_QUOTES_ERROR")
    /\ HasParts(target_line)
    /\ Middle(target_line) # <<>> /\ Middle(target_line)[1] \notin {"'", "\""}

\* C19: in a shorthand diagnosis the line of the rewritten header is the
\* 1-based position in the file of the prev_line shown as offending line.
C19_HeaderNamesPrevLine ==
    (pc = "done" /\ ValidRequest /\ Has(result, "YAML_AND_SHORTHAND_ERROR")) =>
        /\ result[1].line = walk.line_number
        /\ result[1].line \in DOMAIN fs.lines
        /\ fs.lines[result[1].line] = prev_line


C15_ReturnMeansDirectory ==
    \A c \in Callers :
        /\ mpc[c] = "raised" => (merrno[c] # "EEXIST" /\ tree[mpath[c]] # "dir")
        /\ mpc[c] = "returned" => tree[mpath[c]] = "dir"


\* C20: run_cmd leaves its loop only after the child has terminated and
\* either both pipes are at end of file or select reported nothing; it
\* waits for the child only with both pipes at end of file; and what it
\* returns is, in order, every byte the child wrote to each pipe.
C20_ReturnsAllOutput ==
    /\ rpc = "returned" =>
          /\ child = "exited"
          /\ rpipes = {} \/ rfd = {}
          /\ captured = wrote
    /\ rpc = "wait" => rpipes = {}

====
